---- MODULE Spec2Model ----
(***************************************************************************)
(* Model of the admission control of the LLM gateway: the in-memory        *)
(* RateLimiter of app/rate_limiter.py (two sliding windows and a daily     *)
(* token total per API key) and the two request handlers of main.py that   *)
(* drive it (chat and chat_stream).                                        *)
(*                                                                         *)
(* Time is an integer number of clock ticks; datetime.now() is a read of   *)
(* the variable now.  The handlers are coroutines of one event loop: the   *)
(* code between two awaits runs without interleaving, so each action below *)
(* is the code of a handler from one await to the next.  The clock may     *)
(* move between two reads of datetime.now() inside such a block.           *)
(***************************************************************************)
EXTENDS Integers, Sequences, FiniteSets, Bags, TLC


\* ------------------------------------------------------------------ bounds
\* Clock resolution: ticks per second.
TicksPerSecond == 2
\* Number of requests that can be in a handler at the same time.
MaxInFlight == 2
\* Largest token count the upstream model reports for one call.
MaxUsed == 2
\* Largest number of check_rate_limit calls of one key at one instant.
MaxBurst == 3
\* Largest daily total the model lets a key reach.
MaxTotal == 5

\* --------------------------------------------------------- time and clock
\* timedelta(seconds=1), timedelta(minutes=1) and one calendar day, in ticks.
SecondWindow == 1 * TicksPerSecond
MinuteWindow == 60 * TicksPerSecond
TicksPerDay == 86400 * TicksPerSecond

\* datetime.date(): the calendar day of an instant.
DateOf(t) == t \div TicksPerDay

\* The process starts one second before midnight of day 0.
StartTime == TicksPerDay - SecondWindow

\* The instants at which the clock is observed: a cluster around the start
\* (which holds midnight) and a cluster about one minute later.
Instants ==
    {StartTime + x : x \in 0..(SecondWindow + 1)}
        \cup {StartTime + x : x \in (MinuteWindow - 1)..(MinuteWindow + 1)}

\* A later read of datetime.now() in the same synchronous block, after a
\* read that returned n: the clock has not moved, or has moved by one tick.
ClockAfter(n) == {n} \cup ({n + 1} \cap Instants)

\* ------------------------------------------------------------------ inputs
\* The X-API-Key values a request may carry; BadKey is never configured.
AllKeys == {"k1", "k2"}
BadKey == "bad"

\* Optional[int] of ChatRequest.max_tokens: <<>> is None, <<n>> is n.
None == <<>>
MaxTokensInputs == {None, <<0>>, <<1>>, <<3>>}

\* The pairs <<requests_per_second, requests_per_minute>> a configuration
\* may hold: equal caps (of 1, of 2), the usual order, and a minute cap
\* below the second cap.
RateCaps == {<<1, 1>>, <<1, 2>>, <<2, 1>>, <<2, 2>>}

\* The configurations config.yaml may hold, as far as this model reads it.
ConfigsOf(keys) ==
    {[api_keys |-> keys,
      requests_per_second |-> c[1],
      requests_per_minute |-> c[2],
      max_tokens_per_request |-> 2,
      max_tokens_per_day |-> 3] : c \in RateCaps}

VARIABLES
    now,              \* the clock datetime.now() reads
    config,           \* app.config.config, loaded once at import
    minute_requests,  \* RateLimiter.minute_requests: key -> deque of instants
    second_requests,  \* RateLimiter.second_requests: key -> deque of instants
    daily_tokens,     \* RateLimiter.daily_tokens: key -> [date, tokens]
    inflight,         \* the bag of requests awaiting the upstream model
    out,              \* the last reply or return value produced
    admitted,         \* history: per key, the instants recorded by admitted
                      \* requests that are at most one minute old
    burst,            \* history: per key, the check_rate_limit calls made at
                      \* the current instant
    raced             \* history: per key, the tokens add_token_usage recorded
                      \* since the key's last request left check_token_limit
                      \* unrejected

vars == <<now, config, minute_requests, second_requests, daily_tokens,
          inflight, out, admitted, burst, raced>>

\* ------------------------------------------------------------ defaultdict
\* d[k] of a defaultdict: the stored value, or what the factory makes.
Lookup(d, k, dflt) == IF k \in DOMAIN d THEN d[k] ELSE dflt

\* Store on a dict whose keys all hold one shared object: the value is seen
\* under every key.
Store_Shared(d, k, v) == [x \in (DOMAIN d) \cup {k} |-> v]

\* The dict after d[k] has been read (the key now exists) and set to v.
Store(d, k, v) == [x \in (DOMAIN d) \cup {k} |-> IF x = k THEN v ELSE d[x]]

\* -------------------------------------------------------------- responses
NoResp == [status |-> 0, kind |-> "none", cap |-> 0, used |-> 0, requested |-> 0]

Http429(kind, cap) ==
    [status |-> 429, kind |-> kind, cap |-> cap, used |-> 0, requested |-> 0]

Http403PerRequest(requested, cap) ==
    [status |-> 403, kind |-> "per_request", cap |-> cap, used |-> 0,
     requested |-> requested]

Http403PerDay(used, requested, cap) ==
    [status |-> 403, kind |-> "per_day", cap |-> cap, used |-> used,
     requested |-> requested]

\* ------------------------------------------------------------ RateLimiter
\* IsExpired with >= for >: an instant exactly one window old is dropped.
IsExpired_Inclusive(n, t, window) == (n - t) >= window

\* (now - t) > timedelta(...): the recorded instant t has left the window.
IsExpired(n, t, window) == (n - t) > window

\* The pruning with `if` for `while`: at most one expired entry is dropped.
PopExpired_OnlyOne(q, n, window) ==
    IF q # <<>> /\ IsExpired(n, Head(q), window) THEN Tail(q) ELSE q

\* The while loop of _clean_old_requests on one deque: popleft() while the
\* oldest entry has left the window.
RECURSIVE PopExpired(_, _, _)
PopExpired(q, n, window) ==
    IF q # <<>> /\ IsExpired(n, Head(q), window)
    THEN PopExpired(Tail(q), n, window)
    ELSE q

\* Pruning that leaves the per-second deque alone.
CleanOldRequests_MinuteOnly(mr, sr, k, n) ==
    [minute |-> Store(mr, k, PopExpired(Lookup(mr, k, <<>>), n, MinuteWindow)),
     second |-> Store(sr, k, Lookup(sr, k, <<>>))]

\* _clean_old_requests(api_key), with n the value of its datetime.now().
CleanOldRequests(mr, sr, k, n) ==
    [minute |-> Store(mr, k, PopExpired(Lookup(mr, k, <<>>), n, MinuteWindow)),
     second |-> Store(sr, k, PopExpired(Lookup(sr, k, <<>>), n, SecondWindow))]

\* SecondLimitReached with > for >=: one request too many gets through.
SecondLimitReached_OffByOne(q) == Len(q) > config.requests_per_second

\* len(self.second_requests[api_key]) >= config.rate_limit.requests_per_second
SecondLimitReached(q) == Len(q) >= config.requests_per_second

\* MinuteLimitReached with > for >=.
MinuteLimitReached_OffByOne(q) == Len(q) > config.requests_per_minute

\* MinuteLimitReached compared with the per-second cap.
MinuteLimitReached_WrongCap(q) == Len(q) >= config.requests_per_second

\* len(self.minute_requests[api_key]) >= config.rate_limit.requests_per_minute
MinuteLimitReached(q) == Len(q) >= config.requests_per_minute

\* RecordRequest without the append to second_requests.
RecordRequest_MinuteOnly(c, k, n) ==
    [minute |-> Store(c.minute, k, Append(c.minute[k], n)),
     second |-> c.second]

\* The two append(now) calls that record an admitted request.
RecordRequest(c, k, n) ==
    [minute |-> Store(c.minute, k, Append(c.minute[k], n)),
     second |-> Store(c.second, k, Append(c.second[k], n))]

\* check_rate_limit that records the request before it checks the caps.
CheckRateLimit_RecordsFirst(mr, sr, k, n1, n2) ==
    LET c == CleanOldRequests(mr, sr, k, n1)
        a == [minute |-> Store(c.minute, k, Append(c.minute[k], n2)),
              second |-> Store(c.second, k, Append(c.second[k], n2))]
    IN IF Len(c.second[k]) >= config.requests_per_second
       THEN [exc |-> Http429("per_second", config.requests_per_second),
             minute |-> a.minute, second |-> a.second]
       ELSE IF Len(c.minute[k]) >= config.requests_per_minute
       THEN [exc |-> Http429("per_minute", config.requests_per_minute),
             minute |-> a.minute, second |-> a.second]
       ELSE [exc |-> NoResp, minute |-> a.minute, second |-> a.second]

\* check_rate_limit that checks the minute window before the second window.
CheckRateLimit_MinuteFirst(mr, sr, k, n1, n2) ==
    LET c == CleanOldRequests(mr, sr, k, n1) IN
    IF Len(c.minute[k]) >= config.requests_per_minute
    THEN [exc |-> Http429("per_minute", config.requests_per_minute),
          minute |-> c.minute, second |-> c.second]
    ELSE IF Len(c.second[k]) >= config.requests_per_second
    THEN [exc |-> Http429("per_second", config.requests_per_second),
          minute |-> c.minute, second |-> c.second]
    ELSE [exc |-> NoResp,
          minute |-> Store(c.minute, k, Append(c.minute[k], n2)),
          second |-> Store(c.second, k, Append(c.second[k], n2))]

\* check_rate_limit that records the instant of a denied request too.
CheckRateLimit_RecordsDenied(mr, sr, k, n1, n2) ==
    LET c == CleanOldRequests(mr, sr, k, n1)
        a == RecordRequest(c, k, n2)
    IN IF SecondLimitReached(c.second[k])
       THEN [exc |-> Http429("per_second", config.requests_per_second),
             minute |-> a.minute, second |-> a.second]
       ELSE IF MinuteLimitReached(c.minute[k])
       THEN [exc |-> Http429("per_minute", config.requests_per_minute),
             minute |-> a.minute, second |-> a.second]
       ELSE [exc |-> NoResp, minute |-> a.minute, second |-> a.second]

\* check_rate_limit(api_key, request): n1 is the clock read of
\* _clean_old_requests, n2 the read that follows it.  exc is the
\* HTTPException raised, NoResp when the call returns.
CheckRateLimit(mr, sr, k, n1, n2) ==
    LET c == CleanOldRequests(mr, sr, k, n1) IN
    IF SecondLimitReached(c.second[k])
    THEN [exc |-> Http429("per_second", config.requests_per_second),
          minute |-> c.minute, second |-> c.second]
    ELSE IF MinuteLimitReached(c.minute[k])
    THEN [exc |-> Http429("per_minute", config.requests_per_minute),
          minute |-> c.minute, second |-> c.second]
    ELSE LET a == RecordRequest(c, k, n2) IN
         [exc |-> NoResp, minute |-> a.minute, second |-> a.second]

\* get_remaining_requests that records the call like check_rate_limit does.
GetRemainingRequests_TakesSlot(mr, sr, k, n) ==
    LET c == CleanOldRequests(mr, sr, k, n) IN
    [minute |-> Store(c.minute, k, Append(c.minute[k], n)),
     second |-> Store(c.second, k, Append(c.second[k], n)),
     remaining_per_minute |-> config.requests_per_minute - Len(c.minute[k]),
     remaining_per_second |-> config.requests_per_second - Len(c.second[k])]

\* get_remaining_requests(api_key), with n the clock read of the pruning.
GetRemainingRequests(mr, sr, k, n) ==
    LET c == CleanOldRequests(mr, sr, k, n) IN
    [minute |-> c.minute, second |-> c.second,
     remaining_per_minute |-> config.requests_per_minute - Len(c.minute[k]),
     remaining_per_second |-> config.requests_per_second - Len(c.second[k])]

\* requested_tokens > config.token_limits.max_tokens_per_request
PerRequestExceeded(requested) == requested > config.max_tokens_per_request

\* The daily test without the stored total: only a single request larger
\* than the whole day's allowance is turned away.
DailyExceeded_RequestedOnly(tokens, requested) ==
    requested > config.max_tokens_per_day

\* The daily test without the request: only usage already recorded counts.
DailyExceeded_UsedOnly(tokens, requested) ==
    tokens > config.max_tokens_per_day

\* token_info["tokens"] + requested_tokens > config.token_limits.max_tokens_per_day
DailyExceeded(tokens, requested) == tokens + requested > config.max_tokens_per_day

\* Rollover that updates the day and keeps the total.
Rollover_KeepsTokens(info, today) == [date |-> today, tokens |-> info.tokens]

\* Rollover that resets the total and leaves the stored day as it was.
Rollover_KeepsDate(info, today) ==
    IF info.date # today THEN [date |-> info.date, tokens |-> 0] ELSE info

\* "if token_info['date'] != today": reset the record on a new day.
Rollover(info, today) ==
    IF info.date # today THEN [date |-> today, tokens |-> 0] ELSE info

\* A factory that hands every new key one shared dict: a key without a
\* record sees the record of a key that has one.
TokenInfo_SharedDefault(dt, k, n) ==
    IF k \in DOMAIN dt THEN dt[k]
    ELSE IF DOMAIN dt # {} THEN dt[CHOOSE x \in DOMAIN dt : TRUE]
    ELSE [date |-> DateOf(n), tokens |-> 0]

\* self.daily_tokens[api_key], n being the clock at the access.  The factory
\* of a missing key reads the clock just before the caller does; a record
\* made on the other side of midnight is reset by Rollover to the same value.
TokenInfo(dt, k, n) == Lookup(dt, k, [date |-> DateOf(n), tokens |-> 0])

\* check_token_limit that runs the daily check before the per-request check.
CheckTokenLimit_DailyFirst(dt, k, requested, n) ==
    LET info == Rollover(TokenInfo(dt, k, n), DateOf(n))
        dt1 == Store(dt, k, info)
    IN IF DailyExceeded(info.tokens, requested)
       THEN [exc |-> Http403PerDay(info.tokens, requested,
                                   config.max_tokens_per_day),
             daily |-> dt1]
       ELSE IF PerRequestExceeded(requested)
       THEN [exc |-> Http403PerRequest(requested, config.max_tokens_per_request),
             daily |-> dt1]
       ELSE [exc |-> NoResp, daily |-> dt1]

\* check_token_limit(api_key, requested_tokens), n its clock read.
CheckTokenLimit(dt, k, requested, n) ==
    IF PerRequestExceeded(requested)
    THEN [exc |-> Http403PerRequest(requested, config.max_tokens_per_request),
          daily |-> dt]
    ELSE LET info == Rollover(TokenInfo(dt, k, n), DateOf(n))
             dt1 == Store(dt, k, info)
         IN IF DailyExceeded(info.tokens, requested)
            THEN [exc |-> Http403PerDay(info.tokens, requested,
                                        config.max_tokens_per_day),
                  daily |-> dt1]
            ELSE [exc |-> NoResp, daily |-> dt1]

Max(a, b) == IF a >= b THEN a ELSE b

\* add_token_usage without lines 136-138: the usage is added to the stored
\* total whatever its day, and the stored day is kept.
AddTokenUsage_NoRollover(dt, k, tokens_used, n) ==
    LET info == TokenInfo(dt, k, n)
        total == info.tokens + tokens_used
        remaining == config.max_tokens_per_day - total
    IN [daily |-> Store(dt, k, [date |-> info.date, tokens |-> total]),
        ret |-> Max(0, remaining)]

\* add_token_usage that returns `remaining` as computed on line 141, without
\* the max(0, ...) of line 148.
AddTokenUsage_Unclamped(dt, k, tokens_used, n) ==
    LET info == Rollover(TokenInfo(dt, k, n), DateOf(n))
        total == info.tokens + tokens_used
    IN [daily |-> Store(dt, k, [date |-> info.date, tokens |-> total]),
        ret |-> config.max_tokens_per_day - total]

\* add_token_usage that keeps in the record what is left of the day's
\* allowance instead of what was used.
AddTokenUsage_StoresRemaining(dt, k, tokens_used, n) ==
    LET info == Rollover(TokenInfo(dt, k, n), DateOf(n))
        total == info.tokens + tokens_used
        remaining == config.max_tokens_per_day - total
    IN [daily |-> Store(dt, k, [date |-> info.date, tokens |-> remaining]),
        ret |-> Max(0, remaining)]

\* add_token_usage that assigns the usage of the request to the record
\* instead of adding it.
AddTokenUsage_Overwrites(dt, k, tokens_used, n) ==
    LET info == Rollover(TokenInfo(dt, k, n), DateOf(n))
        remaining == config.max_tokens_per_day - tokens_used
    IN [daily |-> Store(dt, k, [date |-> info.date, tokens |-> tokens_used]),
        ret |-> Max(0, remaining)]

\* add_token_usage(api_key, tokens_used), n its clock read.
AddTokenUsage(dt, k, tokens_used, n) ==
    LET info == Rollover(TokenInfo(dt, k, n), DateOf(n))
        total == info.tokens + tokens_used
        remaining == config.max_tokens_per_day - total
    IN [daily |-> Store(dt, k, [date |-> info.date, tokens |-> total]),
        ret |-> Max(0, remaining)]

\* ------------------------------------------------------------ the handlers
\* The default only for a max_tokens that is absent: 0 is taken as given.
RequestedTokens_OnlyForNone(mt) ==
    IF mt = None THEN config.max_tokens_per_request ELSE mt[1]

\* chat_request.max_tokens or config.token_limits.max_tokens_per_request
RequestedTokens(mt) ==
    IF mt = None THEN config.max_tokens_per_request
    ELSE IF mt[1] = 0 THEN config.max_tokens_per_request
    ELSE mt[1]

\* A request that awaits the upstream model: key is its authenticated key,
\* ep its endpoint and units the max_tokens it handed to check_token_limit.
Awaiting(k, endpoint, units) == [key |-> k, ep |-> endpoint, units |-> units]

\* What the last step produced: resp is the HTTP reply (NoResp when the
\* step sent none), ret the values a limiter call returned.
Out(op, k, resp, ret) ==
    [op |-> op, key |-> k, ep |-> "", units |-> 0, resp |-> resp, ret |-> ret]

\* A handler whose `except Exception` catches the HTTPException of a check:
\* every denial leaves as a 500.
AdmitOut_Wraps500(k, endpoint, units, resp) ==
    [op |-> "admit", key |-> k, ep |-> endpoint, units |-> units,
     resp |-> IF resp = NoResp THEN NoResp
              ELSE [NoResp EXCEPT !.status = 500, !.kind = "upstream_error"],
     ret |-> <<>>]

\* What a handler body produced for a request of key k at an endpoint:
\* units is the max_tokens it chose, 0 when it did not get that far.
AdmitOut(k, endpoint, units, resp) ==
    [op |-> "admit", key |-> k, ep |-> endpoint, units |-> units, resp |-> resp,
     ret |-> <<>>]

Ok200 == [NoResp EXCEPT !.status = 200, !.kind = "ok"]
Http401 == [NoResp EXCEPT !.status = 401, !.kind = "invalid_key"]
Http500 == [NoResp EXCEPT !.status = 500, !.kind = "upstream_error"]
StreamErrorEvent == [NoResp EXCEPT !.status = 200, !.kind = "upstream_error"]

\* The history of admitted instants, kept to those within a minute of n.
Live(h, n) == SelectSeq(h, LAMBDA t : n - t <= MinuteWindow)

\* The number of instants of h within the trailing window at n.
CountWithin(h, n, window) == Len(SelectSeq(h, LAMBDA t : n - t <= window))

NoBurst == [calls |-> 0, passed |-> 0, denied |-> 0, fresh |-> FALSE]

Init ==
    /\ now = StartTime
    /\ config \in ConfigsOf({"k1"})
    /\ minute_requests = <<>>
    /\ second_requests = <<>>
    /\ daily_tokens = <<>>
    /\ inflight = EmptyBag
    /\ out = Out("none", "", NoResp, <<>>)
    /\ admitted = [k \in AllKeys |-> <<>>]
    /\ burst = [k \in AllKeys |-> NoBurst]
    /\ raced = [k \in AllKeys |-> 0]

\* Time passes between two handler steps.
Tick ==
    /\ \E t \in Instants : t > now /\ now' = t
    /\ admitted' = [k \in AllKeys |-> Live(admitted[k], now')]
    /\ burst' = [k \in AllKeys |-> NoBurst]
    /\ out' = Out("tick", "", NoResp, <<>>)
    /\ UNCHANGED <<config, minute_requests, second_requests, daily_tokens, inflight,
                   raced>>

\* The key is verified after check_rate_limit has run for it.
Unauthorized_AfterRateLimit(x_api_key) ==
    /\ x_api_key \notin config.api_keys
    /\ \E h \in {CheckRateLimit(minute_requests, second_requests, x_api_key,
                                 now, now)} :
          /\ minute_requests' = h.minute
          /\ second_requests' = h.second
    /\ out' = Out("auth", x_api_key, Http401, <<>>)
    /\ UNCHANGED <<now, config, daily_tokens, inflight, admitted, burst, raced>>

\* verify_api_key raises: the X-API-Key of the request is not configured,
\* and the handler body is never entered.
Unauthorized(x_api_key) ==
    /\ x_api_key \notin config.api_keys
    /\ out' = Out("auth", x_api_key, Http401, <<>>)
    /\ UNCHANGED <<now, config, minute_requests, second_requests, daily_tokens,
                   inflight, admitted, burst, raced>>

\* The burst history after a check_rate_limit call of key k at instant n1
\* that left the clock at n: a move of the clock ends every burst.
BurstAfter(k, n1, n, passed) ==
    IF n # n1 THEN [x \in AllKeys |-> NoBurst]
    ELSE [burst EXCEPT ![k] =
            [calls |-> @.calls + 1,
             passed |-> @.passed + (IF passed THEN 1 ELSE 0),
             denied |-> @.denied + (IF passed THEN 0 ELSE 1),
             fresh |-> IF @.calls = 0 THEN admitted[k] = <<>> ELSE @.fresh]]

\* The block with check_token_limit run even when check_rate_limit raised.
HandlerChecks_QuotaOnDenial(mr, sr, dt, k, mt, n1, n2, n3) ==
    LET rl == CheckRateLimit(mr, sr, k, n1, n2)
        max_tokens == RequestedTokens(mt)
        tl == CheckTokenLimit(dt, k, max_tokens, n3)
    IN IF rl.exc # NoResp
       THEN [exc |-> rl.exc, units |-> 0, minute |-> rl.minute,
             second |-> rl.second, daily |-> tl.daily]
       ELSE [exc |-> tl.exc, units |-> max_tokens, minute |-> rl.minute,
             second |-> rl.second, daily |-> tl.daily]

\* The handler body with check_token_limit called before check_rate_limit.
HandlerChecks_TokensFirst(mr, sr, dt, k, mt, n1, n2, n3) ==
    LET max_tokens == RequestedTokens(mt)
        tl == CheckTokenLimit(dt, k, max_tokens, n1)
    IN IF tl.exc # NoResp
       THEN [exc |-> tl.exc, units |-> max_tokens, minute |-> mr, second |-> sr,
             daily |-> tl.daily]
       ELSE LET rl == CheckRateLimit(mr, sr, k, n2, n3) IN
            [exc |-> rl.exc, units |-> max_tokens, minute |-> rl.minute,
             second |-> rl.second, daily |-> tl.daily]

\* The try block of chat() and of chat_stream() up to the first await:
\* check_rate_limit, the choice of max_tokens, check_token_limit.  n1, n2 and
\* n3 are the clock reads of the three calls; exc is the HTTPException that
\* leaves the block, NoResp when none does.
HandlerChecks(mr, sr, dt, k, mt, n1, n2, n3) ==
    LET rl == CheckRateLimit(mr, sr, k, n1, n2) IN
    IF rl.exc # NoResp
    THEN [exc |-> rl.exc, units |-> 0, minute |-> rl.minute, second |-> rl.second,
          daily |-> dt]
    ELSE LET max_tokens == RequestedTokens(mt)
             tl == CheckTokenLimit(dt, k, max_tokens, n3)
         IN [exc |-> tl.exc, units |-> max_tokens, minute |-> rl.minute,
             second |-> rl.second, daily |-> tl.daily]

\* A request of key k, already through verify_api_key, runs its handler body
\* up to the first await.  An HTTPException ends the request; otherwise the
\* request awaits the upstream model.
Admit(k, endpoint, mt) ==
    /\ BagCardinality(inflight) < MaxInFlight
    /\ burst[k].calls < MaxBurst
    /\ \E n2 \in ClockAfter(now) : \E n3 \in ClockAfter(n2) :
      \E h \in {HandlerChecks(minute_requests, second_requests, daily_tokens,
                               k, mt, now, n2, n3)} :
        LET passed == h.exc.status # 429
        IN /\ passed \/ n3 = n2
           /\ now' = n3
           /\ minute_requests' = h.minute
           /\ second_requests' = h.second
           /\ daily_tokens' = h.daily
           /\ inflight' = IF h.exc # NoResp THEN inflight
                          ELSE inflight (+) SetToBag({Awaiting(k, endpoint, h.units)})
           /\ out' = AdmitOut(k, endpoint, h.units, h.exc)
           /\ admitted' = [x \in AllKeys |->
                             Live(IF x = k /\ passed THEN Append(admitted[x], n2)
                                  ELSE admitted[x], now')]
           /\ burst' = BurstAfter(k, now, now', passed)
           /\ raced' = IF h.exc = NoResp THEN [raced EXCEPT ![k] = 0] ELSE raced
    /\ UNCHANGED config

\* chat(): lines 64-86, then the await of llm_service.chat_completion.
Chat(k) == \E mt \in MaxTokensInputs : Admit(k, "chat", mt)

\* chat_stream(): lines 153-175, then the StreamingResponse is returned.
ChatStream(k) == \E mt \in MaxTokensInputs : Admit(k, "stream", mt)

\* The usage is recorded and the request goes on awaiting the upstream
\* model, as if add_token_usage were called on every chunk of the stream.
UpstreamDone_StaysAwaiting(q, tokens_used) ==
    /\ BagIn(q, inflight)
    /\ \E u \in {AddTokenUsage(daily_tokens, q.key, tokens_used, now)} :
        /\ u.daily[q.key].tokens <= MaxTotal
        /\ daily_tokens' = u.daily
        /\ out' = [Out("usage", q.key, Ok200, <<u.ret>>) EXCEPT !.ep = q.ep,
                                                               !.units = tokens_used]
    /\ raced' = [raced EXCEPT ![q.key] = @ + tokens_used]
    /\ UNCHANGED <<now, config, minute_requests, second_requests, admitted, burst,
                   inflight>>

\* The upstream call of request q returned tokens_used: add_token_usage,
\* then the reply (the ChatResponse of chat, the final event of the stream).
UpstreamDone(q, tokens_used) ==
    /\ BagIn(q, inflight)
    /\ \E u \in {AddTokenUsage(daily_tokens, q.key, tokens_used, now)} :
        /\ u.daily[q.key].tokens <= MaxTotal
        /\ daily_tokens' = u.daily
        /\ out' = [Out("usage", q.key, Ok200, <<u.ret>>) EXCEPT !.ep = q.ep,
                                                               !.units = tokens_used]
    /\ inflight' = inflight (-) SetToBag({q})
    /\ raced' = [raced EXCEPT ![q.key] = @ + tokens_used]
    /\ UNCHANGED <<now, config, minute_requests, second_requests, admitted, burst>>

\* A failure path that charges the request the max_tokens it asked for.
UpstreamFailed_ChargesRequested(q) ==
    /\ BagIn(q, inflight)
    /\ daily_tokens' = AddTokenUsage(daily_tokens, q.key, q.units, now).daily
    /\ out' = [Out("fail", q.key,
                   IF q.ep = "chat" THEN Http500 ELSE StreamErrorEvent, <<>>)
                 EXCEPT !.ep = q.ep]
    /\ inflight' = inflight (-) SetToBag({q})
    /\ UNCHANGED <<now, config, minute_requests, second_requests, admitted, burst,
                   raced>>

\* The upstream call of request q raised: chat() answers with the error, the
\* stream yields an error event; add_token_usage is not reached.
UpstreamFailed(q) ==
    /\ BagIn(q, inflight)
    /\ out' = [Out("fail", q.key,
                   IF q.ep = "chat" THEN Http500 ELSE StreamErrorEvent, <<>>)
                 EXCEPT !.ep = q.ep]
    /\ inflight' = inflight (-) SetToBag({q})
    /\ UNCHANGED <<now, config, minute_requests, second_requests, daily_tokens,
                   admitted, burst, raced>>

\* rate_limiter.get_remaining_requests(api_key), called on its own.
GetRemaining(k) ==
    /\ LET g == GetRemainingRequests(minute_requests, second_requests, k, now) IN
        /\ minute_requests' = g.minute
        /\ second_requests' = g.second
        /\ out' = Out("remaining", k, NoResp,
                      <<g.remaining_per_minute, g.remaining_per_second>>)
    /\ UNCHANGED <<now, config, daily_tokens, inflight, admitted, burst, raced>>

Next ==
    \/ Tick
    \/ \E x \in AllKeys \cup {BadKey} : Unauthorized(x)
    \/ \E k \in config.api_keys : Chat(k)
    \/ \E k \in config.api_keys : ChatStream(k)
    \/ \E q \in BagToSet(inflight) : \E u \in 0..MaxUsed : UpstreamDone(q, u)
    \/ \E q \in BagToSet(inflight) : UpstreamFailed(q)
    \/ \E k \in config.api_keys : GetRemaining(k)

Spec == Init /\ [][Next]_vars

\* ------------------------------------------------------------ two keys
\* The service with both keys configured and both rate caps at 1.
InitTwoKeys ==
    /\ now = StartTime
    /\ config \in {c \in ConfigsOf(AllKeys) :
                     c.requests_per_second = 1 /\ c.requests_per_minute = 1}
    /\ minute_requests = <<>>
    /\ second_requests = <<>>
    /\ daily_tokens = <<>>
    /\ inflight = EmptyBag
    /\ out = Out("none", "", NoResp, <<>>)
    /\ admitted = [k \in AllKeys |-> <<>>]
    /\ burst = [k \in AllKeys |-> NoBurst]
    /\ raced = [k \in AllKeys |-> 0]

\* The limiter calls of the two keys, interleaved: requests of the plain
\* endpoint that leave max_tokens out, upstream replies of MaxUsed tokens,
\* upstream failures, and get_remaining_requests.
NextTwoKeys ==
    \/ Tick
    \/ \E k \in config.api_keys : Admit(k, "chat", None)
    \/ \E q \in BagToSet(inflight) : UpstreamDone(q, MaxUsed)
    \/ \E q \in BagToSet(inflight) : UpstreamFailed(q)
    \/ \E k \in config.api_keys : GetRemaining(k)

SpecTwoKeys == InitTwoKeys /\ [][NextTwoKeys]_vars

\* ------------------------------------------- requests with any int
\* ChatRequest.max_tokens is Optional[int] with no constraint (no ge=):
\* pydantic accepts a negative number.
AnyIntInputs == MaxTokensInputs \cup {<<-1>>}

ChatAnyInt(k) == \E mt \in AnyIntInputs : Admit(k, "chat", mt)

ChatStreamAnyInt(k) == \E mt \in AnyIntInputs : Admit(k, "stream", mt)

NextAnyInt ==
    \/ Tick
    \/ \E x \in AllKeys \cup {BadKey} : Unauthorized(x)
    \/ \E k \in config.api_keys : ChatAnyInt(k)
    \/ \E k \in config.api_keys : ChatStreamAnyInt(k)
    \/ \E q \in BagToSet(inflight) : \E u \in 0..MaxUsed : UpstreamDone(q, u)
    \/ \E q \in BagToSet(inflight) : UpstreamFailed(q)
    \/ \E k \in config.api_keys : GetRemaining(k)

\* The service when clients may send any integer as max_tokens.
SpecAnyInt == Init /\ [][NextAnyInt]_vars

\* A client that sends its next request only when the previous one has been
\* answered: a request gets through the checks only while the key has no
\* request at the upstream.
ChatSerial(k) ==
    /\ Chat(k)
    /\ out'.resp = NoResp => \A q \in BagToSet(inflight) : q.key # k

ChatStreamSerial(k) ==
    /\ ChatStream(k)
    /\ out'.resp = NoResp => \A q \in BagToSet(inflight) : q.key # k

\* An upstream that honours max_tokens: the usage it reports is at most the
\* max_tokens the handler passed to it.
UpstreamDoneWithinRequest(q) ==
    \E u \in 0..MaxUsed : u <= q.units /\ UpstreamDone(q, u)

NextSerial ==
    \/ Tick
    \/ \E x \in AllKeys \cup {BadKey} : Unauthorized(x)
    \/ \E k \in config.api_keys : ChatSerial(k)
    \/ \E k \in config.api_keys : ChatStreamSerial(k)
    \/ \E q \in BagToSet(inflight) : UpstreamDoneWithinRequest(q)
    \/ \E q \in BagToSet(inflight) : UpstreamFailed(q)
    \/ \E k \in config.api_keys : GetRemaining(k)

\* The service with one request at a time per key and an upstream that
\* honours max_tokens.
SpecSerial == Init /\ [][NextSerial]_vars

\* max_tokens left out of the body, or sent as 0.
DefaultInputs == {None, <<0>>}

ChatDefault(k) == \E mt \in DefaultInputs : Admit(k, "chat", mt)

ChatStreamDefault(k) == \E mt \in DefaultInputs : Admit(k, "stream", mt)

NextDefault ==
    \/ Tick
    \/ \E x \in AllKeys \cup {BadKey} : Unauthorized(x)
    \/ \E k \in config.api_keys : ChatDefault(k)
    \/ \E k \in config.api_keys : ChatStreamDefault(k)
    \/ \E q \in BagToSet(inflight) : \E u \in 0..MaxUsed : UpstreamDone(q, u)
    \/ \E q \in BagToSet(inflight) : UpstreamFailed(q)
    \/ \E k \in config.api_keys : GetRemaining(k)

\* The service when no client gives a max_tokens of its own.
SpecDefault == Init /\ [][NextDefault]_vars

\* ------------------------------------------------------- claim vocabulary
\* The deque stored for key k, empty when the key has none.
Window(d, k) == Lookup(d, k, <<>>)

\* A window after pruning at n, by its definition: the stored instants that
\* are at most `window` old.
Kept(q, n, window) == SelectSeq(q, LAMBDA t : n - t <= window)

\* The step is a handler body run for key k (out' is what it produced).
AdmitStep(k) == out'.op = "admit" /\ out'.key = k

\* The daily total of key k as a check at day `today` sees it.
UsedOn(dt, k, today) ==
    IF k \in DOMAIN dt /\ dt[k].date = today THEN dt[k].tokens ELSE 0

\* The step is add_token_usage for key k (out'.units is what it added).
UsageStep(k) == out'.op = "usage" /\ out'.key = k

\* The step ends the upstream call of one awaiting request of the key and
\* endpoint that out' names.
LeavesUpstream ==
    \E q \in BagToSet(inflight) :
        /\ q.key = out'.key /\ q.ep = out'.ep
        /\ inflight' = inflight (-) SetToBag({q})

\* The step is get_remaining_requests for key k (out'.ret is what it
\* returned).
RemainingStep(k) == out'.op = "remaining" /\ out'.key = k

\* What dict d holds for key k: <<value>>, or <<>> when the key is absent.
Entry(d, k) == IF k \in DOMAIN d THEN <<d[k]>> ELSE <<>>

\* The instants of q are in non-decreasing order, oldest first.
NonDecreasing(q) == \A i \in 1 .. Len(q) - 1 : q[i] <= q[i + 1]

\* Every instant of q is at most `window` older than n.
AllWithin(q, n, window) == \A i \in 1 .. Len(q) : n - q[i] <= window

\* The step ran the daily check of check_token_limit for key k: the request
\* passed the rate checks and the per-request check.
DailyCheckStep(k) ==
    /\ AdmitStep(k)
    /\ out'.resp.status # 429
    /\ out'.units <= config.max_tokens_per_request

\* ------------------------------------------------------------------ claims
\* C1: in every reachable state and for every key, the number of admitted
\* requests whose recorded instant is at most one second old is at most
\* requests_per_second, and the number at most one minute old is at most
\* requests_per_minute.
C1_CapsRespected ==
    \A k \in AllKeys :
        /\ CountWithin(admitted[k], now, SecondWindow) <= config.requests_per_second
        /\ CountWithin(admitted[k], now, MinuteWindow) <= config.requests_per_minute

\* A key holds as many live admitted requests as the per-second cap of 2
\* allows, a further request has just been turned away, and add_token_usage
\* has run for the key.
C1_Witness ==
    /\ config.requests_per_second = 2
    /\ CountWithin(admitted["k1"], now, SecondWindow) = 2
    /\ out.op = "admit" /\ out.resp.status = 429
    /\ "k1" \in DOMAIN daily_tokens /\ daily_tokens["k1"].tokens > 0

\* C2: with a cap of 1 on a window, of the check_rate_limit calls one key
\* makes at one instant, starting from an empty window, exactly one passes
\* and all the others are answered 429.
C2_ExactlyOnePasses ==
    \A k \in AllKeys :
        (/\ config.requests_per_second = 1 \/ config.requests_per_minute = 1
         /\ burst[k].calls >= 1
         /\ burst[k].fresh)
        => /\ burst[k].passed = 1
           /\ burst[k].denied = burst[k].calls - 1

\* Three calls of one key at one instant, from an empty window, cap 1.
C2_Witness ==
    /\ config.requests_per_second = 1
    /\ burst["k1"].fresh
    /\ burst["k1"].calls = 3
    /\ burst["k1"].passed = 1
    /\ burst["k1"].denied = 2

\* C3: a handler body is answered 429 exactly when, after pruning at the
\* time of the call, the per-second window of its key holds at least
\* requests_per_second instants or the per-minute window at least
\* requests_per_minute; otherwise the rate check passes.
C3_RateDenialIff ==
    [][\A k \in AllKeys :
          AdmitStep(k) =>
            ((out'.resp.status = 429)
               <=> (\/ Len(Kept(Window(second_requests, k), now, SecondWindow))
                          >= config.requests_per_second
                    \/ Len(Kept(Window(minute_requests, k), now, MinuteWindow))
                          >= config.requests_per_minute))]_vars

\* A request was answered 429 on the minute window while the second window
\* had room.
C3_Witness ==
    /\ out.op = "admit"
    /\ out.resp = Http429("per_minute", config.requests_per_minute)
    /\ Len(Window(second_requests, out.key)) < config.requests_per_second

\* C4: a request is turned away while as many admitted requests as the cap
\* allows are at most one window old, and is let through the rate check once
\* enough of them are older: it is answered 429 exactly when the admitted
\* requests of its key within the trailing second number at least
\* requests_per_second, or those within the trailing minute at least
\* requests_per_minute.
C4_SlidingWindow ==
    [][\A k \in AllKeys :
          AdmitStep(k) =>
            ((out'.resp.status = 429)
               <=> (\/ CountWithin(admitted[k], now, SecondWindow)
                          >= config.requests_per_second
                    \/ CountWithin(admitted[k], now, MinuteWindow)
                          >= config.requests_per_minute))]_vars

\* With a per-minute cap of 2: three requests got through the checks (two
\* await the upstream model, one has recorded its tokens).  The first did at
\* StartTime, the second one tick later, and the third is let through one
\* tick after the first became more than a minute old, the second being
\* exactly one minute old and still counted.
C4_Witness ==
    /\ config.requests_per_minute = 2
    /\ out.op = "admit" /\ out.resp = NoResp
    /\ now = StartTime + MinuteWindow + 1
    /\ Window(minute_requests, "k1") = <<StartTime + 1, now>>
    /\ BagCardinality(inflight) = 2
    /\ daily_tokens["k1"].tokens > 0

\* C5: a request answered 429 leaves no instant in either window: after it
\* the two windows of its key are the windows before it, pruned.
C5_DeniedTakesNoSlot ==
    [][\A k \in AllKeys :
          (AdmitStep(k) /\ out'.resp.status = 429) =>
            /\ Window(second_requests', k)
                 = Kept(Window(second_requests, k), now, SecondWindow)
            /\ Window(minute_requests', k)
                 = Kept(Window(minute_requests, k), now, MinuteWindow)]_vars

\* A request was answered 429 on a call that also pruned: the minute window
\* is full and the second window is empty.
C5_Witness ==
    /\ out.op = "admit" /\ out.resp.status = 429
    /\ Window(second_requests, out.key) = <<>>
    /\ Len(Window(minute_requests, out.key)) = 2

\* C6: a request that passes the rate check and is answered 403 has left its
\* instant in both windows: each holds one instant more than it held after
\* the pruning of the call, and nothing removes it.
C6_QuotaDeniedKeepsSlot ==
    [][\A k \in AllKeys :
          (AdmitStep(k) /\ out'.resp.status = 403) =>
            /\ Len(Window(second_requests', k))
                 = Len(Kept(Window(second_requests, k), now, SecondWindow)) + 1
            /\ Len(Window(minute_requests', k))
                 = Len(Kept(Window(minute_requests, k), now, MinuteWindow)) + 1
            /\ admitted'[k] # <<>>
            /\ admitted'[k][Len(admitted'[k])]
                 = Window(second_requests', k)[Len(Window(second_requests', k))]
            /\ admitted'[k][Len(admitted'[k])]
                 = Window(minute_requests', k)[Len(Window(minute_requests', k))]]_vars

\* The streaming endpoint answered 403 for the daily total.
C6_Witness ==
    /\ out.op = "admit" /\ out.ep = "stream"
    /\ out.resp.status = 403 /\ out.resp.kind = "per_day"
    /\ Len(Window(minute_requests, out.key)) = 2

\* C7: with the per-second window below its cap, a request is answered with
\* the per-minute violation once requests_per_minute instants lie in the
\* trailing minute.
C7_MinuteIndependent ==
    [][\A k \in AllKeys :
          (/\ AdmitStep(k)
           /\ Len(Kept(Window(second_requests, k), now, SecondWindow))
                < config.requests_per_second
           /\ Len(Kept(Window(minute_requests, k), now, MinuteWindow))
                >= config.requests_per_minute)
          => out'.resp = Http429("per_minute", config.requests_per_minute)]_vars

\* The second cap is above the minute cap, and a request at the very instant
\* of the admitted one was answered with the per-minute violation.
C7_Witness ==
    /\ config.requests_per_second > config.requests_per_minute
    /\ out.op = "admit" /\ out.resp.kind = "per_minute"
    /\ Window(second_requests, out.key) = <<now>>

\* C8: when both windows are at or above their caps, the violation answered
\* is the per-second one.
C8_SecondReportedFirst ==
    [][\A k \in AllKeys :
          (/\ AdmitStep(k)
           /\ Len(Kept(Window(second_requests, k), now, SecondWindow))
                >= config.requests_per_second
           /\ Len(Kept(Window(minute_requests, k), now, MinuteWindow))
                >= config.requests_per_minute)
          => out'.resp = Http429("per_second", config.requests_per_second)]_vars

\* Both windows are full and the per-second violation was answered.
C8_Witness ==
    /\ out.op = "admit" /\ out.resp.kind = "per_second"
    /\ Len(Window(second_requests, out.key)) >= config.requests_per_second
    /\ Len(Window(minute_requests, out.key)) >= config.requests_per_minute

\* C9: a request that passes the rate check and asks for more than
\* max_tokens_per_request is answered with the per-request 403 whatever the
\* daily total of its key, and daily_tokens is left as it was: no record is
\* made, none is rolled over.
C9_PerRequestFirstAndPure ==
    [][\A k \in AllKeys :
          (/\ AdmitStep(k)
           /\ out'.resp.status # 429
           /\ out'.units > config.max_tokens_per_request)
          => /\ out'.resp = Http403PerRequest(out'.units,
                                              config.max_tokens_per_request)
             /\ daily_tokens' = daily_tokens]_vars

\* The per-request 403 was answered although the stored total would fail the
\* daily check too, and the stored day is still yesterday.
C9_Witness ==
    /\ out.op = "admit" /\ out.resp.kind = "per_request"
    /\ out.key \in DOMAIN daily_tokens
    /\ daily_tokens[out.key].tokens + out.units > config.max_tokens_per_day
    /\ daily_tokens[out.key].tokens > 0
    /\ daily_tokens[out.key].date # DateOf(now)

\* C10: for a request that passes the rate and the per-request check, the
\* daily check leaves the record of the key dated today, with the total it
\* had if it was of today and 0 otherwise, and answers the per-day 403
\* exactly when that total plus the requested units exceeds
\* max_tokens_per_day.  The requested units are never added.
C10_DailyCheck ==
    [][\A k \in AllKeys :
          (/\ AdmitStep(k)
           /\ out'.resp.status # 429
           /\ out'.units <= config.max_tokens_per_request)
          => LET used == UsedOn(daily_tokens, k, DateOf(now')) IN
             /\ k \in DOMAIN daily_tokens'
             /\ daily_tokens'[k] = [date |-> DateOf(now'), tokens |-> used]
             /\ (out'.resp.status = 403)
                  <=> (used + out'.units > config.max_tokens_per_day)
             /\ out'.resp.status = 403
                  => out'.resp = Http403PerDay(used, out'.units,
                                               config.max_tokens_per_day)]_vars

\* A request passed the daily check on the day after the key had used up
\* its total: the check rolled the record over.
C10_Witness ==
    /\ out.op = "admit" /\ out.resp = NoResp /\ out.units = 2
    /\ daily_tokens[out.key] = [date |-> DateOf(now), tokens |-> 0]
    /\ DateOf(now) # DateOf(StartTime)
    /\ \E q \in BagToSet(inflight) : q.key = out.key /\ inflight[q] = 2

\* C11: when add_token_usage runs for a key whose stored day is not the
\* day of the call, the record of the key becomes that day with a total of
\* exactly the tokens added: the old total is reset to 0 first.
C11_RolloverOnCommit ==
    [][\A k \in AllKeys :
          (/\ UsageStep(k)
           /\ k \in DOMAIN daily_tokens
           /\ daily_tokens[k].date # DateOf(now'))
          => daily_tokens'[k] = [date |-> DateOf(now'), tokens |-> out'.units]]_vars

\* Two requests got through the checks at StartTime, the day before; they
\* are the only ones that reached check_token_limit.  Since then the first
\* recorded 2 tokens and, at midnight, the second records 1: the total is 1,
\* so the 2 were recorded the day before and this call reset them.
C11_Witness ==
    /\ out.op = "usage" /\ out.units = 1
    /\ now = StartTime + SecondWindow
    /\ admitted[out.key] = <<StartTime, StartTime>>
    /\ raced[out.key] = 3
    /\ daily_tokens[out.key] = [date |-> DateOf(now), tokens |-> 1]

\* C12: add_token_usage has no rejecting path.  Called with tokens_used >= 0,
\* it leaves the record of the key with the day's total so far plus
\* tokens_used, and returns max_tokens_per_day minus that new total when
\* this is positive and 0 otherwise: the returned value is never negative,
\* even when the total is beyond the daily maximum.
C12_CommitNeverRejects ==
    [][\A k \in AllKeys :
          (UsageStep(k) /\ out'.units >= 0) =>
             LET total == UsedOn(daily_tokens, k, DateOf(now')) + out'.units
                 left == config.max_tokens_per_day - total
             IN /\ out'.resp = Ok200
                /\ daily_tokens'[k] = [date |-> DateOf(now'), tokens |-> total]
                /\ out'.ret = <<IF left > 0 THEN left ELSE 0>>
                /\ out'.ret[1] >= 0]_vars

\* add_token_usage took the total of the day beyond max_tokens_per_day and
\* returned 0.
C12_Witness ==
    /\ out.op = "usage" /\ out.units > 0
    /\ daily_tokens[out.key].date = DateOf(now)
    /\ daily_tokens[out.key].tokens > config.max_tokens_per_day
    /\ out.ret = <<0>>

C14_RequestOrdering ==
    [][/\ inflight' # inflight =>
            \/ /\ out'.op = "admit" /\ out'.resp = NoResp
               /\ out'.ep \in {"chat", "stream"}
               /\ inflight' = inflight (+)
                     SetToBag({Awaiting(out'.key, out'.ep, out'.units)})
               /\ Window(minute_requests', out'.key) # <<>>
               /\ Window(second_requests', out'.key) # <<>>
               /\ LET m == Window(minute_requests', out'.key)
                      s == Window(second_requests', out'.key)
                  IN /\ m[Len(m)] = s[Len(s)]
                     /\ m[Len(m)] \in now .. now'
               /\ out'.units <= config.max_tokens_per_request
               /\ UsedOn(daily_tokens, out'.key, DateOf(now')) + out'.units
                     <= config.max_tokens_per_day
            \/ out'.op \in {"usage", "fail"} /\ LeavesUpstream
       /\ (out'.op = "admit" /\ out'.resp # NoResp) => inflight' = inflight
       /\ out'.op = "usage" => LeavesUpstream
       /\ \A k \in AllKeys :
             UsedOn(daily_tokens', k, DateOf(now')) # UsedOn(daily_tokens, k, DateOf(now'))
               => UsageStep(k)]_vars

\* The usage of a request of the streaming endpoint has been recorded while
\* a request of the plain endpoint still awaits the upstream model.
C14_Witness ==
    /\ out.op = "usage" /\ out.ep = "stream" /\ out.units > 0
    /\ BagCardinality(inflight) = 1
    /\ \E q \in BagToSet(inflight) : q.ep = "chat" /\ q.key = out.key

\* C15: the step in which the upstream call of an awaiting request fails
\* (an error, a timeout, a dropped stream) ends that request without
\* add_token_usage: every daily record is as it was, and so are both
\* windows of every key, the instant the request recorded included.
C15_FailureRecordsNothing ==
    [][out'.op = "fail" =>
          /\ LeavesUpstream
          /\ daily_tokens' = daily_tokens
          /\ minute_requests' = minute_requests
          /\ second_requests' = second_requests]_vars

\* The only request that got through the checks has failed upstream: no
\* request awaits, the total of its key is still 0 and its instant is still
\* in both windows.
C15_Witness ==
    /\ out.op = "fail" /\ out.resp = Http500
    /\ inflight = EmptyBag
    /\ Len(admitted[out.key]) = 1
    /\ daily_tokens[out.key].tokens = 0
    /\ Window(minute_requests, out.key) = admitted[out.key]
    /\ Window(second_requests, out.key) = admitted[out.key]

\* C16: get_remaining_requests of a key leaves each window of the key with
\* exactly its instants that are at most one window old, in their order (it
\* adds none), returns the caps minus the lengths of these, and changes
\* neither the daily records nor the windows of another key; and a second
\* call for the key right after a first one (the clock has not moved and no
\* handler has run) returns what the first returned and changes nothing.
C16_RemainingReadOnly ==
    [][\A k \in AllKeys :
          RemainingStep(k) =>
             /\ minute_requests'[k] = Kept(Window(minute_requests, k), now, MinuteWindow)
             /\ second_requests'[k] = Kept(Window(second_requests, k), now, SecondWindow)
             /\ out'.ret = <<config.requests_per_minute - Len(minute_requests'[k]),
                             config.requests_per_second - Len(second_requests'[k])>>
             /\ \A x \in AllKeys \ {k} :
                   /\ Window(minute_requests', x) = Window(minute_requests, x)
                   /\ Window(second_requests', x) = Window(second_requests, x)
             /\ daily_tokens' = daily_tokens
             /\ inflight' = inflight
             /\ (out.op = "remaining" /\ out.key = k) =>
                   /\ out'.ret = out.ret
                   /\ minute_requests' = minute_requests
                   /\ second_requests' = second_requests]_vars

\* get_remaining_requests ran for a key with one admitted request that is
\* more than a second and at most a minute old: the instant is gone from
\* the second window and kept in the minute window.
C16_Witness ==
    /\ out.op = "remaining"
    /\ Len(admitted[out.key]) = 1
    /\ now - admitted[out.key][1] > SecondWindow
    /\ Window(minute_requests, out.key) = admitted[out.key]
    /\ Window(second_requests, out.key) = <<>>
    /\ out.ret = <<config.requests_per_minute - 1, config.requests_per_second>>

\* C17: a request whose max_tokens is negative is answered with an error
\* that is neither the 429 of the rate limits nor the 403 of the quotas, and
\* leaves the windows, the daily records and the awaiting requests as they
\* were.
C17_NegativeRejected ==
    [][\A k \in AllKeys :
          (AdmitStep(k) /\ out'.units < 0) =>
             /\ out'.resp # NoResp
             /\ out'.resp.status \notin {403, 429}
             /\ minute_requests' = minute_requests
             /\ second_requests' = second_requests
             /\ daily_tokens' = daily_tokens
             /\ inflight' = inflight]_vars

\* C18: a limiter call made for one key (check_rate_limit and
\* check_token_limit in a handler step, add_token_usage, a failed upstream
\* call, get_remaining_requests) leaves what the three dicts hold for every
\* other key as it was, an absent entry staying absent; and a key is answered
\* 429 only when its own admitted requests fill one of its windows.
C18_SubjectIsolation ==
    [][\A a \in AllKeys :
          (out'.key = a /\ out'.op \in {"admit", "usage", "fail", "remaining"}) =>
             /\ \A b \in AllKeys \ {a} :
                   /\ Entry(second_requests', b) = Entry(second_requests, b)
                   /\ Entry(minute_requests', b) = Entry(minute_requests, b)
                   /\ Entry(daily_tokens', b) = Entry(daily_tokens, b)
             /\ (out'.op = "admit" /\ out'.resp.status = 429) =>
                   \/ CountWithin(admitted[a], now, SecondWindow)
                         >= config.requests_per_second
                   \/ CountWithin(admitted[a], now, MinuteWindow)
                         >= config.requests_per_minute]_vars

\* A request of k1 is answered 429 while k2 has tokens recorded and, in its
\* windows, an instant that is more than a minute old: a request of k2 would
\* not be answered 429.
C18_Witness ==
    /\ config.api_keys = AllKeys
    /\ out.op = "admit" /\ out.key = "k1" /\ out.resp.status = 429
    /\ "k2" \in DOMAIN daily_tokens
    /\ daily_tokens["k2"].tokens = MaxUsed
    /\ Len(Window(minute_requests, "k2")) = 1
    /\ Len(Window(second_requests, "k2")) = 1
    /\ now - Window(minute_requests, "k2")[1] > MinuteWindow

\* C19: in every reachable state the instants of every stored window are in
\* non-decreasing order from the oldest to the newest; and right after a
\* step that pruned the windows of a key (check_rate_limit in a handler
\* step, get_remaining_requests), every instant stored for the key is at
\* most one window older than the clock the pruning read.
C19_WindowInvariant ==
    /\ [](\A k \in AllKeys :
            /\ NonDecreasing(Window(minute_requests, k))
            /\ NonDecreasing(Window(second_requests, k)))
    /\ [][\A k \in AllKeys :
            (AdmitStep(k) \/ RemainingStep(k)) =>
               /\ AllWithin(Window(minute_requests', k), now, MinuteWindow)
               /\ AllWithin(Window(second_requests', k), now, SecondWindow)]_vars

\* A handler step pruned and recorded: the minute window of its key holds
\* two instants more than a second apart, the older one exactly a minute
\* old, and the second window only the newer one.
C19_Witness ==
    /\ out.op = "admit" /\ out.resp.status # 429
    /\ Len(Window(minute_requests, out.key)) = 2
    /\ now - Window(minute_requests, out.key)[1] = MinuteWindow
    /\ Window(minute_requests, out.key)[2] = now
    /\ Window(second_requests, out.key) = <<now>>

\* C20: in every reachable state the total of every daily record is at
\* least 0.
C20_TotalNonNegative ==
    \A k \in DOMAIN daily_tokens : daily_tokens[k].tokens >= 0

\* The lowest total a recording can leave: a reply of 0 tokens is recorded
\* on a new day, after 2 tokens of the day before; the total is 0.
C20_Witness ==
    /\ out.op = "usage" /\ out.units = 0
    /\ raced[out.key] = 2
    /\ DateOf(now) # DateOf(StartTime)
    /\ daily_tokens[out.key] = [date |-> DateOf(now), tokens |-> 0]

\* C21: a step that runs the daily check or add_token_usage for a key
\* leaves the record of the key dated the day of the clock it read, with
\* the total the record had if it was of that day and 0 otherwise, plus the
\* tokens add_token_usage added: nothing recorded on an earlier day is in
\* it.  No other step changes a record, and no record is dated after the
\* day of the clock.
C21_DayInvariant ==
    /\ [][\A k \in AllKeys :
            /\ (DailyCheckStep(k) \/ UsageStep(k)) =>
                  /\ k \in DOMAIN daily_tokens'
                  /\ daily_tokens'[k].date = DateOf(now')
                  /\ daily_tokens'[k].tokens =
                        UsedOn(daily_tokens, k, DateOf(now'))
                          + (IF UsageStep(k) THEN out'.units ELSE 0)
            /\ Entry(daily_tokens', k) # Entry(daily_tokens, k)
                  => (DailyCheckStep(k) \/ UsageStep(k))]_vars
    /\ [](\A k \in DOMAIN daily_tokens : daily_tokens[k].date <= DateOf(now))

\* Two requests got through the checks at StartTime, the day before.  The
\* first recorded 2 tokens that day; at midnight the second records 2: the
\* record is dated the new day and its total is 2, not 4.
C21_Witness ==
    /\ out.op = "usage" /\ out.units = 2
    /\ now = StartTime + SecondWindow
    /\ admitted[out.key] = <<StartTime, StartTime>>
    /\ raced[out.key] = 4
    /\ daily_tokens[out.key] = [date |-> DateOf(now), tokens |-> 2]

\* C22: a request that the checks turn away is answered 429 when one of its
\* key's windows is full, with the per-second cap named when the second
\* window is full and the per-minute cap otherwise; 403 with the requested
\* tokens and the per-request cap when it asks for more than
\* max_tokens_per_request; and 403 with the used, requested and maximum
\* figures when the day's total plus the requested tokens is beyond
\* max_tokens_per_day.  A handler step answers nothing else: no denial is
\* a 500.
C22_DenialResponses ==
    [][\A k \in AllKeys :
          AdmitStep(k) =>
             LET second_full == CountWithin(admitted[k], now, SecondWindow)
                                  >= config.requests_per_second
                 minute_full == CountWithin(admitted[k], now, MinuteWindow)
                                  >= config.requests_per_minute
                 used == UsedOn(daily_tokens, k, DateOf(now'))
             IN /\ out'.resp =
                     IF second_full
                     THEN Http429("per_second", config.requests_per_second)
                     ELSE IF minute_full
                     THEN Http429("per_minute", config.requests_per_minute)
                     ELSE IF out'.units > config.max_tokens_per_request
                     THEN Http403PerRequest(out'.units, config.max_tokens_per_request)
                     ELSE IF used + out'.units > config.max_tokens_per_day
                     THEN Http403PerDay(used, out'.units, config.max_tokens_per_day)
                     ELSE NoResp
                /\ out'.resp.status \in {0, 403, 429}
                /\ (out'.resp.status = 0) <=> (inflight' # inflight)]_vars

\* A request for 2 tokens is answered 403 with the figures of the day:
\* used 2, requested 2, maximum 3.
C22_Witness ==
    /\ out.op = "admit"
    /\ out.resp = Http403PerDay(2, 2, config.max_tokens_per_day)
    /\ out.resp.status = 403 /\ out.resp.cap = 3

\* C23: the keys of each of the three dicts only grow.  The first limiter
\* call for a key finds both windows empty: a request is not answered 429
\* and leaves one and the same instant in both, get_remaining_requests
\* leaves both empty and returns the two caps.  The first daily check for
\* a key finds a total of 0: it leaves a record of 0 tokens dated the day
\* of the clock, and turns the request away only if the request alone is
\* beyond max_tokens_per_day.
C23_LazyLifecycle ==
    [][/\ DOMAIN minute_requests \subseteq DOMAIN minute_requests'
       /\ DOMAIN second_requests \subseteq DOMAIN second_requests'
       /\ DOMAIN daily_tokens \subseteq DOMAIN daily_tokens'
       /\ \A k \in AllKeys :
            /\ (k \notin DOMAIN minute_requests /\ k \notin DOMAIN second_requests
                  /\ AdmitStep(k)) =>
                  /\ out'.resp.status # 429
                  /\ k \in DOMAIN minute_requests' /\ k \in DOMAIN second_requests'
                  /\ Len(minute_requests'[k]) = 1
                  /\ minute_requests'[k][1] \in now .. now'
                  /\ second_requests'[k] = minute_requests'[k]
            /\ (k \notin DOMAIN minute_requests /\ k \notin DOMAIN second_requests
                  /\ RemainingStep(k)) =>
                  /\ k \in DOMAIN minute_requests' /\ k \in DOMAIN second_requests'
                  /\ minute_requests'[k] = <<>> /\ second_requests'[k] = <<>>
                  /\ out'.ret = <<config.requests_per_minute,
                                  config.requests_per_second>>
            /\ (k \notin DOMAIN daily_tokens /\ DailyCheckStep(k)) =>
                  /\ k \in DOMAIN daily_tokens'
                  /\ daily_tokens'[k] = [date |-> DateOf(now'), tokens |-> 0]
                  /\ (out'.resp = NoResp)
                        <=> (out'.units <= config.max_tokens_per_day)]_vars

\* The first request of k2 got through the checks, and left a record of 0
\* tokens, on a day on which k1 has recorded MaxUsed tokens.
C23_Witness ==
    /\ config.api_keys = AllKeys
    /\ DOMAIN daily_tokens = AllKeys
    /\ out.op = "admit" /\ out.key = "k2" /\ out.resp = NoResp
    /\ admitted["k2"] = Window(minute_requests, "k2")
    /\ Len(admitted["k2"]) = 1
    /\ BagCardinality(inflight) = 1
    /\ daily_tokens["k2"] = [date |-> DateOf(now), tokens |-> 0]
    /\ daily_tokens["k1"] = [date |-> DateOf(now), tokens |-> MaxUsed]

\* C24: when a key's requests never overlap and the upstream never reports
\* more than the max_tokens of the request, the key's daily total is at
\* most max_tokens_per_day in every reachable state.
C24_HardCeiling ==
    \A k \in DOMAIN daily_tokens :
        daily_tokens[k].tokens <= config.max_tokens_per_day

\* A reply has brought the total of the day to exactly max_tokens_per_day.
C24_Witness ==
    /\ out.op = "usage" /\ out.units > 0
    /\ inflight = EmptyBag
    /\ out.key \in DOMAIN daily_tokens
    /\ daily_tokens[out.key] =
            [date |-> DateOf(now), tokens |-> config.max_tokens_per_day]

\* C25: a request whose X-API-Key is not a configured key is answered 401
\* and changes neither the windows, nor the daily records, nor the requests
\* at the upstream; every limiter call and every upstream request is for a
\* configured key; in every reachable state the keys of the three dicts
\* are configured keys.
C25_AuthBeforeAdmission ==
    /\ [][/\ out'.op = "auth" =>
                /\ out'.key \notin config.api_keys
                /\ out'.resp.status = 401
                /\ UNCHANGED <<minute_requests, second_requests, daily_tokens,
                               inflight>>
          /\ out'.op \in {"admit", "usage", "fail", "remaining"} =>
                /\ out'.key \in config.api_keys
                /\ out'.resp.status # 401]_vars
    /\ [](/\ DOMAIN minute_requests \subseteq config.api_keys
          /\ DOMAIN second_requests \subseteq config.api_keys
          /\ DOMAIN daily_tokens \subseteq config.api_keys
          /\ \A q \in BagToSet(inflight) : q.key \in config.api_keys)

\* While k1 has window entries, usage of the day and a request at the
\* upstream, a request with the key k2, which is not configured, has been
\* answered 401.
C25_Witness ==
    /\ out.op = "auth" /\ out.key = "k2" /\ out.resp = Http401
    /\ config.api_keys = {"k1"}
    /\ DOMAIN minute_requests = {"k1"} /\ DOMAIN daily_tokens = {"k1"}
    /\ daily_tokens["k1"].tokens > 0
    /\ Len(minute_requests["k1"]) > 0
    /\ inflight # EmptyBag

\* C26: a request of a key whose admitted requests are all more than a
\* minute old is not answered 429, whatever requests of the key were denied
\* in between; it finds nothing live in either window and leaves its own
\* instant as their only entry.
C26_RateRecovery ==
    [][\A k \in AllKeys :
         (AdmitStep(k) /\ admitted[k] = <<>>) =>
            /\ out'.resp.status # 429
            /\ Len(minute_requests'[k]) = 1
            /\ minute_requests'[k][1] \in now .. now'
            /\ second_requests'[k] = minute_requests'[k]]_vars

\* With one request per minute allowed, a second request of k1 has been
\* admitted: the first one, admitted on the day before, has been answered
\* and its usage recorded.
C26_Witness ==
    /\ config.requests_per_minute = 1
    /\ out.op = "admit" /\ out.key = "k1" /\ out.resp = NoResp
    /\ now = StartTime + MinuteWindow + 1
    /\ minute_requests["k1"] = <<now>>
    /\ second_requests["k1"] = <<now>>
    /\ BagCardinality(inflight) = 1
    /\ daily_tokens["k1"].tokens > 0

\* The daily check turns away a request of k for r tokens made now.
DailyCheckDenies(dt, k, r, n) ==
    UsedOn(dt, k, DateOf(n)) + r > config.max_tokens_per_day

C28_RateDenialSkipsQuota ==
    [][\A k \in AllKeys :
         (AdmitStep(k) /\ out'.resp.status = 429) =>
            /\ daily_tokens' = daily_tokens
            /\ inflight' = inflight
            /\ raced' = raced]_vars

\* A request has been answered 429 on the day after the one of the key's
\* record, which still carries the earlier date and its total.
C28_Witness ==
    /\ out.op = "admit" /\ out.resp.status = 429
    /\ out.key \in DOMAIN daily_tokens
    /\ daily_tokens[out.key].date < DateOf(now)
    /\ daily_tokens[out.key].tokens > 0

\* C29: a request whose max_tokens is absent or 0, once through the rate
\* checks, is checked for max_tokens_per_request tokens: it is never
\* answered with the 403 of the per-request check, it is answered with the
\* 403 of the daily check exactly when the total of the day plus
\* max_tokens_per_request is beyond max_tokens_per_day, and otherwise it
\* goes to the upstream with max_tokens_per_request as its max_tokens.
C29_DefaultUnits ==
    [][\A k \in AllKeys :
         (AdmitStep(k) /\ out'.resp.status # 429) =>
            LET used == UsedOn(daily_tokens, k, DateOf(now'))
                cap == config.max_tokens_per_request
            IN /\ out'.units = cap
               /\ out'.resp.kind # "per_request"
               /\ out'.resp =
                     IF used + cap > config.max_tokens_per_day
                     THEN Http403PerDay(used, cap, config.max_tokens_per_day)
                     ELSE NoResp
               /\ out'.resp = NoResp =>
                     inflight' = inflight (+) SetToBag({Awaiting(k, out'.ep, cap)})]_vars

\* A request without a max_tokens of its own, sent to /chat/stream, has
\* been turned away by the daily check, on a day whose total is
\* max_tokens_per_day.
C29_Witness ==
    /\ out.op = "admit" /\ out.ep = "stream"
    /\ out.units = config.max_tokens_per_request
    /\ out.resp = Http403PerDay(config.max_tokens_per_day,
                                config.max_tokens_per_request,
                                config.max_tokens_per_day)
    /\ out.key \in DOMAIN daily_tokens
    /\ daily_tokens[out.key].date = DateOf(now)

\* s is the sequence of the last Len(s) elements of q.
IsSuffix(s, q) ==
    /\ Len(s) <= Len(q)
    /\ \A i \in 1..Len(s) : s[i] = q[Len(q) - Len(s) + i]

\* C30: in every reachable state the per-second window of every key is a
\* suffix of its per-minute window, the two windows have the same keys,
\* and a request that gets through the rate checks puts one and the same
\* instant at the end of both.
C30_WindowContainment ==
    /\ [](/\ DOMAIN second_requests = DOMAIN minute_requests
          /\ \A k \in AllKeys :
                IsSuffix(Window(second_requests, k), Window(minute_requests, k)))
    /\ [][\A k \in AllKeys :
            (AdmitStep(k) /\ out'.resp.status # 429) =>
               LET m == minute_requests'[k]
                   z == second_requests'[k]
               IN /\ Len(z) >= 1
                  /\ z[Len(z)] = m[Len(m)]
                  /\ Len(m) = Len(PopExpired(Window(minute_requests, k), now,
                                             MinuteWindow)) + 1
                  /\ Len(z) = Len(PopExpired(Window(second_requests, k), now,
                                             SecondWindow)) + 1]_vars

\* get_remaining_requests has pruned the windows of a key: the per-minute
\* window holds two instants, the per-second window only the newer one.
C30_Witness ==
    /\ out.op = "remaining"
    /\ Len(Window(minute_requests, out.key)) = 2
    /\ Len(Window(second_requests, out.key)) = 1
    /\ Window(second_requests, out.key)[1] = Window(minute_requests, out.key)[2]
    /\ Window(minute_requests, out.key)[1] < Window(minute_requests, out.key)[2]
    /\ now - Window(second_requests, out.key)[1] = SecondWindow

====
